---------------------------- MODULE Spec2Model ----------------------------
(***************************************************************************)
(* A model of the gang-sheet packing engine of EZGangSheets (src/index.js): *)
(* the single-file packer (POST /merge), the consolidated multi-file       *)
(* packer (POST /merge-consolidated) and the cost calculator.              *)
(*                                                                         *)
(* Lengths are in PDF points (72 per inch) unless a name says Inch or      *)
(* Inches.  Prices are in cents (5.28 is 528).                             *)
(***************************************************************************)
EXTENDS Integers, Sequences, FiniteSets, TLC

(***************************************************************************)
(* Bounds of the model.                                                    *)
(***************************************************************************)
\* the largest quantity a request asks for
MaxQuantity == 3
\* the largest number of files in one consolidated request (the code allows 10)
MaxFiles == 2
\* how many sheets beyond MaxFiles * MaxQuantity a sheet loop may emit before
\* the model stops following it (a loop that never ends is cut there)
MaxExtraSheets == 2
\* the largest sheet height, in inches, handed to calculateCost on its own
MaxCostHeight == 60
\* the largest sheet height, in inches, priced with the stock table
MaxStockHeight == 216
\* the layout calculator on its own: logo sides are LayoutUnit, 2 * LayoutUnit,
\* ... MaxLayoutSteps * LayoutUnit points
LayoutUnit == 67
MaxLayoutSteps == 26
\* the quantities of the 4 in x 2 in scenario are 1 .. MaxScenarioQuantity
MaxScenarioQuantity == 100
\* how many /merge and /merge-consolidated requests are served at once
MaxHandlers == 2
\* the calendar months the download limit is followed through: 0 .. MaxMonths
MaxMonths == 1

(***************************************************************************)
(* Program constants.                                                      *)
(***************************************************************************)
POINTS_PER_INCH == 72
\* SAFE_MARGIN_INCH * POINTS_PER_INCH = 0.125 * 72
safeMarginPts == 9
\* SPACING_INCH * POINTS_PER_INCH = 0.5 * 72
spacingPts == 36
\* the JavaScript null of `cost` and `totalCost` for a caller who is not Pro
Null == -1

\* the sheet widths the form offers ("22 or 30")
GangWidths == {22, 30}
\* the maximum sheet lengths, in inches, the requests of the model ask for
MaxLengths == {2, 4, 24}
\* the page sizes <<width, height>>, in points, of the uploaded logos
LogoSizes == {<<700, 54>>, <<1000, 108>>, <<1600, 1600>>, <<72, 300>>}
UserPlans == {"free", "pro"}

(***************************************************************************)
(* Arithmetic of the JavaScript code.                                      *)
(***************************************************************************)
\* Math.floor(a / b) for b > 0
Floor(a, b) == a \div b

\* Math.ceil(a / b) for b > 0
Ceil(a, b) == -((-a) \div b)

Min(a, b) == IF a < b THEN a ELSE b

RECURSIVE SumSeq(_)
SumSeq(s) == IF s = <<>> THEN 0 ELSE Head(s) + SumSeq(Tail(s))

\* all sequences over S of length 0..n
SeqsUpTo(S, n) == UNION {[1..k -> S] : k \in 0..n}

(***************************************************************************)
(* Cost calculator.  A cost table is a function from tier heights (whole   *)
(* inches) to prices.                                                      *)
(***************************************************************************)
\* the value of a JavaScript expression that is undefined
Undefined == -2

DEFAULT_COST_TABLE ==
  (12 :> 528) @@ (24 :> 1056) @@ (36 :> 1584) @@ (48 :> 2112) @@
  (60 :> 2640) @@ (80 :> 3520) @@ (100 :> 4400) @@ (120 :> 4928) @@
  (140 :> 5632) @@ (160 :> 6160) @@ (180 :> 6864) @@ (200 :> 7568)

\* the 30 inch table of userCostTables
DEFAULT_COST_TABLE_30 ==
  (12 :> 718) @@ (24 :> 1436) @@ (36 :> 2154) @@ (48 :> 2872) @@
  (60 :> 3590) @@ (80 :> 4787) @@ (100 :> 5984) @@ (120 :> 6702) @@
  (140 :> 7660) @@ (160 :> 8378) @@ (180 :> 9335) @@ (200 :> 10292)

\* Object.keys(costTable).map(Number).sort((a, b) => a - b)
RECURSIVE SortAscending(_)
SortAscending(S) ==
  IF S = {} THEN <<>>
  ELSE LET m == CHOOSE x \in S : \A y \in S : x <= y
       IN  <<m>> \o SortAscending(S \ {m})

\* availableTiers.find(t => t >= roundedHeight): the first such element in
\* array order, undefined when there is none
RECURSIVE FindNotBelow(_, _)
FindNotBelow(tiers, roundedHeight) ==
  IF tiers = <<>> THEN Undefined
  ELSE IF Head(tiers) >= roundedHeight THEN Head(tiers)
  ELSE FindNotBelow(Tail(tiers), roundedHeight)

\* Math.max(...availableTiers); -Infinity for no tiers, which is no key
MathMax(tiers) ==
  IF tiers = <<>> THEN Undefined
  ELSE CHOOSE x \in {tiers[i] : i \in DOMAIN tiers} :
         \A i \in DOMAIN tiers : tiers[i] <= x

\* costTable[key]
Lookup(costTable, key) ==
  IF key \in DOMAIN costTable THEN costTable[key] ELSE Undefined

\* the truth value JavaScript gives a number or undefined
Truthy(v) == v # Undefined /\ v # 0

\* a faulty RoundedHeight: rounds down
MutRoundedHeight(heightInches) == Floor(heightInches, 12) * 12

\* Math.ceil(heightInches / 12) * 12
RoundedHeight(heightInches) == Ceil(heightInches, 12) * 12

\* a faulty NextTier: falls back to the smallest tier
MutNextTier(availableTiers, roundedHeight) ==
  LET found == FindNotBelow(availableTiers, roundedHeight)
  IN  IF Truthy(found) THEN found ELSE availableTiers[1]

\* availableTiers.find(...) || Math.max(...availableTiers)
NextTier(availableTiers, roundedHeight) ==
  LET found == FindNotBelow(availableTiers, roundedHeight)
  IN  IF Truthy(found) THEN found ELSE MathMax(availableTiers)

calculateCost(widthInches, heightInches, costTable) ==
  LET roundedHeight == RoundedHeight(heightInches)
  IN  IF Truthy(Lookup(costTable, roundedHeight))
      THEN costTable[roundedHeight]
      ELSE LET availableTiers == SortAscending(DOMAIN costTable)
               nextTier == NextTier(availableTiers, roundedHeight)
           IN  Lookup(costTable, nextTier)

(***************************************************************************)
(* Layout calculator.                                                      *)
(***************************************************************************)
\* a faulty LogosPerRow: the safe margins are not taken off the sheet width
MutLogosPerRow(layoutWidth, gangWidth) ==
  Floor(gangWidth * POINTS_PER_INCH + spacingPts, layoutWidth + spacingPts)

\* Math.floor((sheetWidthPts - safeMarginPts * 2 + spacingPts) / logoTotalWidth)
LogosPerRow(layoutWidth, gangWidth) ==
  Floor(gangWidth * POINTS_PER_INCH - safeMarginPts * 2 + spacingPts,
        layoutWidth + spacingPts)

\* Math.floor((maxHeightPts - safeMarginPts * 2 + spacingPts) / logoTotalHeight)
RowsPerSheet(layoutHeight, maxLengthInches) ==
  Floor(maxLengthInches * POINTS_PER_INCH - safeMarginPts * 2 + spacingPts,
        layoutHeight + spacingPts)

\* calculateLayout of /merge-consolidated
calculateLayout(width, height, isRotated, gangWidth, maxLength) ==
  LET logosPerRow == LogosPerRow(width, gangWidth)
      rowsPerSheet == RowsPerSheet(height, maxLength)
  IN  IF logosPerRow < 1
      THEN [logosPerRow |-> 0, rowsPerSheet |-> 0, logosPerSheet |-> 0]
      ELSE [logosPerRow |-> logosPerRow, rowsPerSheet |-> rowsPerSheet,
            logosPerSheet |-> logosPerRow * rowsPerSheet]

(***************************************************************************)
(* State.                                                                  *)
(***************************************************************************)
VARIABLES
  pc,              \* where the request handler is: "idle", "merge" (in the
                   \* sheet loop of /merge), "consolidated" (in the while
                   \* loop of /merge-consolidated), "done", "error"
  req,             \* the request being served
  remaining,       \* /merge: let remaining
  sheetIndex,      \* the sheet loop's counter
  allSheetData,    \* the sheets pushed so far
  logoData,        \* /merge-consolidated: logoData, one entry per file
  remainingLogos,  \* /merge-consolidated: let remainingLogos
  res,             \* the response sent
  cc,              \* the calls of calculateCost made on their own
  downloadCounts,  \* const downloadCounts = new Map(): email -> {count, resetDate}
  currentMonth,    \* the calendar month of new Date()
  inflight,        \* the /merge and /merge-consolidated handlers waiting at
                   \* an await, one per connection
  reply,           \* the last answer of such a handler
  sheetsSent,      \* how many answers with sheets UserEmail got as a
                   \* free user in the current month
  users,           \* let users: the in-memory user store
  usersFile,       \* users.json
  tokens,          \* the tokens signed so far
  authRes          \* the last answer of the account routes

\* the state of the download limit
downloadVars == <<downloadCounts, currentMonth, inflight, reply, sheetsSent>>

\* the state of the account routes
userVars == <<users, usersFile, tokens, authRes>>

serverVars == <<downloadVars, userVars>>

vars == <<pc, req, remaining, sheetIndex, allSheetData, logoData,
          remainingLogos, res, cc, serverVars>>

\* the state of the two packers
packerState == <<pc, req, remaining, sheetIndex, allSheetData, logoData,
                 remainingLogos, res>>

packerVars == <<packerState, serverVars>>

\* req.file of a request that uploads no file
NoFile == <<>>

NoRequest == [route |-> "none"]
NoResponse == [status |-> 0]
NoCalls == [calls |-> <<>>]

\* the most sheets a loop of the model emits
SheetCap == MaxFiles * MaxQuantity + MaxExtraSheets

\* new Map()
EmptyMap == [key \in {} |-> <<>>]

\* map.set(key, value)
MapSet(map, key, value) == [k \in DOMAIN map \cup {key} |->
                             IF k = key THEN value ELSE map[k]]

\* map.delete(key)
MapDelete(map, key) == [k \in DOMAIN map \ {key} |-> map[k]]

\* the connections of the server
Handlers == 1..MaxHandlers

\* the callers the model follows: a free user, who may have upgraded, and
\* the administrator
UserEmail == "user@example.com"
ADMIN_EMAIL == "admin@ezgangsheets.com"
ADMIN_PASSWORD == "admin123"

\* let userEmail = null
NoEmail == ""

\* bcrypt.hash(password, 10) and bcrypt.compare(password, hash)
Hash(password) == [hashOf |-> password]
Compare(password, hash) == hash = Hash(password)

\* the values of `users`: a Map, or whatever else was assigned to it
UsersMap(entries) == [kind |-> "Map", entries |-> entries]
UsersObject(object) == [kind |-> "Object", object |-> object]

\* initializeAdminAccount on a server without users.json
AdminUser == [email |-> ADMIN_EMAIL, password |-> Hash(ADMIN_PASSWORD),
              plan |-> "pro"]

InitDownloads ==
  /\ downloadCounts = EmptyMap
  /\ currentMonth = 0
  /\ inflight = [h \in Handlers |-> NoRequest]
  /\ reply = [seq |-> 0, status |-> 0, userPlan |-> "free", userEmail |-> NoEmail]
  /\ sheetsSent = 0

InitUsers ==
  /\ users = UsersMap(MapSet(EmptyMap, ADMIN_EMAIL, AdminUser))
  /\ usersFile = MapSet(EmptyMap, ADMIN_EMAIL, AdminUser)
  /\ tokens = {}
  /\ authRes = NoResponse

Init ==
  /\ pc = "idle"
  /\ req = NoRequest
  /\ remaining = 0
  /\ sheetIndex = 0
  /\ allSheetData = <<>>
  /\ logoData = <<>>
  /\ remainingLogos = <<>>
  /\ res = NoResponse
  /\ cc = NoCalls
  /\ InitDownloads
  /\ InitUsers

\* the catch blocks: res.status(500).send(`Server error: ${err.message}`)
ServerError(message) == [status |-> 500, error |-> message]

\* res.json({sheets, totalCost, userPlan})
JsonResponse(sheets, totalCost, userPlan) ==
  [status |-> 200, sheets |-> sheets, totalCost |-> totalCost,
   userPlan |-> userPlan]

\* s.cost || 0
CostOrZero(cost) == IF Truthy(cost) /\ cost # Null THEN cost ELSE 0

\* a faulty TotalCost: each sheet overwrites the sum
MutTotalCost(sheets, userPlan) ==
  IF userPlan = "pro"
  THEN IF sheets = <<>> THEN 0 ELSE CostOrZero(sheets[Len(sheets)].cost)
  ELSE Null

\* allSheetData.reduce((sum, s) => sum + (s.cost || 0), 0), null unless Pro
TotalCost(sheets, userPlan) ==
  IF userPlan = "pro"
  THEN SumSeq([i \in DOMAIN sheets |-> CostOrZero(sheets[i].cost)])
  ELSE Null

(***************************************************************************)
(* POST /merge: the single-file packer.                                    *)
(***************************************************************************)
\* a faulty MergeLayoutWidth: the rotate flag is not looked at
MutMergeLayoutWidth(r) == r.file[1]

\* let layoutWidth = logoWidth; if (rotate) swap
MergeLayoutWidth(r) == IF r.rotate THEN r.file[2] ELSE r.file[1]
MergeLayoutHeight(r) == IF r.rotate THEN r.file[1] ELSE r.file[2]

MergeLogosPerRow(r) == LogosPerRow(MergeLayoutWidth(r), r.gangWidth)
MergeRowsPerSheet(r) == RowsPerSheet(MergeLayoutHeight(r), r.maxLengthInches)
MergeLogosPerSheet(r) == MergeLogosPerRow(r) * MergeRowsPerSheet(r)

\* if (!quantity || quantity <= 0)
InvalidQuantity(quantity) == quantity = 0 \/ quantity <= 0

\* a faulty LogoTooWide: a row of no logo is accepted
MutLogoTooWide(logosPerRow) == logosPerRow < 0

\* if (logosPerRow < 1) throw new Error("Logo too wide for sheet")
LogoTooWide(logosPerRow) == logosPerRow < 1

\* a faulty BelowTotalSheetsNeeded: the number of sheets is rounded down
MutBelowTotalSheetsNeeded(index, quantity, logosPerSheet) ==
  IF logosPerSheet = 0 THEN TRUE
  ELSE index < Floor(quantity, logosPerSheet)

\* sheetIndex < totalSheetsNeeded, with totalSheetsNeeded =
\* Math.ceil(quantity / logosPerSheet); quantity / 0 is Infinity
BelowTotalSheetsNeeded(index, quantity, logosPerSheet) ==
  IF logosPerSheet = 0 THEN TRUE
  ELSE index < Ceil(quantity, logosPerSheet)

\* a faulty LogosOnThisSheet: every sheet is taken to be full
MutLogosOnThisSheet(remainingNow, logosPerSheet) == logosPerSheet

\* Math.min(remaining, logosPerSheet)
LogosOnThisSheet(remainingNow, logosPerSheet) == Min(remainingNow, logosPerSheet)

\* usedRows * logoTotalHeight + safeMarginPts * 2 - spacingPts
UsedHeightPts(usedRows, logoTotalHeight) ==
  usedRows * logoTotalHeight + safeMarginPts * 2 - spacingPts

\* Math.ceil(usedHeightPts / POINTS_PER_INCH) * POINTS_PER_INCH
RoundedHeightPts(usedHeightPts) ==
  Ceil(usedHeightPts, POINTS_PER_INCH) * POINTS_PER_INCH

\* a faulty DrawLogo: a rotated logo is drawn at x + logoWidth
MutDrawLogo(r, fileIndex, row, col, x, y) ==
  [fileIndex |-> fileIndex, row |-> row, col |-> col, x |-> x, y |-> y,
   drawX |-> IF r.rotate THEN x + r.file[1] ELSE x,
   drawY |-> y,
   rotated |-> r.rotate,
   w |-> MergeLayoutWidth(r), h |-> MergeLayoutHeight(r)]

\* drawLogo: a rotated logo is drawn at x + logoHeight
DrawLogo(r, fileIndex, row, col, x, y) ==
  [fileIndex |-> fileIndex, row |-> row, col |-> col, x |-> x, y |-> y,
   drawX |-> IF r.rotate THEN x + r.file[2] ELSE x,
   drawY |-> y,
   rotated |-> r.rotate,
   w |-> MergeLayoutWidth(r), h |-> MergeLayoutHeight(r)]

\* a faulty AdvanceX: the spacing between two logos is left out
MutAdvanceX(xCursor, layoutWidth) == xCursor + layoutWidth

\* xCursor += logoTotalWidth
AdvanceX(xCursor, layoutWidth) == xCursor + layoutWidth + spacingPts

\* the placement loop: while (drawn < logosOnThisSheet) { for (c ...) ... }
RECURSIVE MergePlace(_, _, _, _, _, _, _)
MergePlace(r, logosOnThisSheet, drawn, c, xCursor, yCursor, row) ==
  IF drawn >= logosOnThisSheet THEN <<>>
  ELSE IF c < MergeLogosPerRow(r)
  THEN <<DrawLogo(r, 0, row, c, xCursor, yCursor)>> \o
       MergePlace(r, logosOnThisSheet, drawn + 1, c + 1,
                  AdvanceX(xCursor, MergeLayoutWidth(r)), yCursor, row)
  ELSE MergePlace(r, logosOnThisSheet, drawn, 0, safeMarginPts,
                  yCursor - (MergeLayoutHeight(r) + spacingPts), row + 1)

\* one sheet of the loop: its record of allSheetData, with what was drawn
MergeSheetData(r, remainingNow) ==
  LET logosOnThisSheet == LogosOnThisSheet(remainingNow, MergeLogosPerSheet(r))
      usedRows == Ceil(logosOnThisSheet, MergeLogosPerRow(r))
      roundedHeightPts ==
        RoundedHeightPts(UsedHeightPts(usedRows, MergeLayoutHeight(r) + spacingPts))
      finalHeightInch == Ceil(roundedHeightPts, POINTS_PER_INCH)
  IN  [width |-> r.gangWidth,
       height |-> finalHeightInch,
       heightPts |-> roundedHeightPts,
       cost |-> IF r.userPlan = "pro"
                THEN calculateCost(r.gangWidth, finalHeightInch, DEFAULT_COST_TABLE)
                ELSE Null,
       placements |-> MergePlace(r, logosOnThisSheet, 0, 0, safeMarginPts,
                                 roundedHeightPts - safeMarginPts - MergeLayoutHeight(r), 0)]

MergeRequests ==
  [route : {"merge"}, quantity : -1..MaxQuantity, rotate : BOOLEAN,
   gangWidth : GangWidths, maxLengthInches : MaxLengths,
   file : LogoSizes \cup {NoFile}, userPlan : UserPlans]

\* the handler up to the sheet loop: validation and layout
MergeStart(r) ==
  /\ req' = r
  /\ sheetIndex' = 0
  /\ allSheetData' = <<>>
  /\ UNCHANGED <<logoData, remainingLogos, cc, serverVars>>
  /\ IF r.file = NoFile
     THEN /\ pc' = "error"
          /\ res' = ServerError("No file uploaded")
          /\ UNCHANGED remaining
     ELSE IF InvalidQuantity(r.quantity)
     THEN /\ pc' = "error"
          /\ res' = ServerError("Invalid quantity")
          /\ UNCHANGED remaining
     ELSE IF LogoTooWide(MergeLogosPerRow(r))
     THEN /\ pc' = "error"
          /\ res' = ServerError("Logo too wide for sheet")
          /\ UNCHANGED remaining
     ELSE /\ pc' = "merge"
          /\ remaining' = r.quantity
          /\ UNCHANGED res

\* one iteration of for (sheetIndex < totalSheetsNeeded)
MergeSheet ==
  /\ pc = "merge"
  /\ BelowTotalSheetsNeeded(sheetIndex, req.quantity, MergeLogosPerSheet(req))
  /\ Len(allSheetData) < SheetCap
  /\ LET sheet == MergeSheetData(req, remaining)
     IN  /\ allSheetData' = Append(allSheetData, sheet)
         /\ remaining' = remaining - Len(sheet.placements)
  /\ sheetIndex' = sheetIndex + 1
  /\ UNCHANGED <<pc, req, logoData, remainingLogos, res, cc, serverVars>>

\* after the loop: totalCost and res.json
MergeRespond ==
  /\ pc = "merge"
  /\ ~BelowTotalSheetsNeeded(sheetIndex, req.quantity, MergeLogosPerSheet(req))
  /\ pc' = "done"
  /\ res' = JsonResponse(allSheetData, TotalCost(allSheetData, req.userPlan),
                         req.userPlan)
  /\ UNCHANGED <<req, remaining, sheetIndex, allSheetData, logoData,
                 remainingLogos, cc, serverVars>>

\* the handler has returned; the server waits for the next request
Finish ==
  /\ pc \in {"done", "error"}
  /\ pc' = "idle"
  /\ req' = NoRequest
  /\ remaining' = 0
  /\ sheetIndex' = 0
  /\ allSheetData' = <<>>
  /\ logoData' = <<>>
  /\ remainingLogos' = <<>>
  /\ res' = NoResponse
  /\ UNCHANGED <<cc, serverVars>>

(***************************************************************************)
(* POST /merge-consolidated: the consolidated multi-file packer.           *)
(***************************************************************************)
\* a faulty VerticalWins: a tie goes to the rotated layout
MutVerticalWinsTie(verticalLayout, horizontalLayout) ==
  verticalLayout.logosPerSheet >= horizontalLayout.logosPerSheet

\* a faulty VerticalWins: the comparison is turned around
MutVerticalWinsLess(verticalLayout, horizontalLayout) ==
  verticalLayout.logosPerSheet < horizontalLayout.logosPerSheet

\* if (verticalLayout.logosPerSheet > horizontalLayout.logosPerSheet)
VerticalWins(verticalLayout, horizontalLayout) ==
  verticalLayout.logosPerSheet > horizontalLayout.logosPerSheet

\* Step 1, for the file at fileIndex (from 0): Smart Fit and the logoData entry
LogoDataOf(fileIndex, size, quantity, gangWidth, maxLengthInches) ==
  LET logoWidth == size[1]
      logoHeight == size[2]
      horizontalLayout ==
        calculateLayout(logoWidth, logoHeight, FALSE, gangWidth, maxLengthInches)
      verticalLayout ==
        calculateLayout(logoHeight, logoWidth, TRUE, gangWidth, maxLengthInches)
      isRotated == VerticalWins(verticalLayout, horizontalLayout)
  IN  [fileIndex |-> fileIndex,
       quantity |-> quantity,
       logoWidth |-> IF isRotated THEN logoHeight ELSE logoWidth,
       logoHeight |-> IF isRotated THEN logoWidth ELSE logoHeight,
       isRotated |-> isRotated,
       layout |-> IF isRotated THEN verticalLayout ELSE horizontalLayout]

CollectLogoData(r) ==
  [i \in DOMAIN r.files |->
     LogoDataOf(i - 1, r.files[i], r.quantities[i], r.gangWidth, r.maxLengthInches)]

\* for (let i = 0; i < logo.quantity; i++) allLogos.push({...logo, logoIndex: i})
LogoCopies(logo) ==
  [k \in 1..logo.quantity |->
     [fileIndex |-> logo.fileIndex, logoIndex |-> k - 1,
      logoWidth |-> logo.logoWidth, logoHeight |-> logo.logoHeight,
      isRotated |-> logo.isRotated]]

\* logoData.forEach(...)
RECURSIVE FlattenFrom(_, _)
FlattenFrom(data, k) ==
  IF k > Len(data) THEN <<>>
  ELSE LogoCopies(data[k]) \o FlattenFrom(data, k + 1)

\* allLogos.sort((a, b) => a.fileIndex - b.fileIndex): a stable sort
RECURSIVE SortByFileIndex(_, _, _)
SortByFileIndex(logos, fileIndex, n) ==
  IF fileIndex >= n THEN <<>>
  ELSE SelectSeq(logos, LAMBDA l : l.fileIndex = fileIndex) \o
       SortByFileIndex(logos, fileIndex + 1, n)

\* a faulty AllLogos: the copies of the first file are left out
MutAllLogos(data) == SortByFileIndex(FlattenFrom(data, 2), 0, Len(data))

\* Step 2: the flat list of all logos, grouped by file
AllLogos(data) == SortByFileIndex(FlattenFrom(data, 1), 0, Len(data))

\* a faulty SwitchingFile: only the first logo of a sheet starts a file
MutSwitchingFile(fileIndex, currentFileIndex) == currentFileIndex = -1

\* if (logo.fileIndex !== tempCurrentFileIndex), and the same test of the
\* second pass on currentFileIndex
SwitchingFile(fileIndex, currentFileIndex) == fileIndex # currentFileIndex

\* a faulty NoSpaceForRow: the height of the new row is left out
MutNoSpaceForRow(yCursor, logoTotalHeight) == yCursor < safeMarginPts

\* if (tempYCursor - logoTotalHeight < safeMarginPts) break
NoSpaceForRow(yCursor, logoTotalHeight) == yCursor - logoTotalHeight < safeMarginPts

\* the start of the first pass's cursor
FirstPassStart(maxLengthInches) == maxLengthInches * POINTS_PER_INCH - safeMarginPts

\* One iteration of the first pass, on index i (from 1) of remainingLogos.
\* st holds tempYCursor, tempCurrentFileIndex, tempCurrentRowLogos and
\* logosToPlace; left is TRUE once `break` has left the loop; walk keeps,
\* for every logo selected, tempYCursor and tempCurrentRowLogos as the
\* iteration found its row and column.
FirstPassStep(logos, gangWidth, i, st) ==
  LET logo == logos[i]
      logoTotalWidth == logo.logoWidth + spacingPts
      logoTotalHeight == logo.logoHeight + spacingPts
      placed(y, rowLogos) ==
        [tempYCursor |-> y, tempCurrentFileIndex |-> logo.fileIndex,
         tempCurrentRowLogos |-> rowLogos + 1,
         logosToPlace |-> Append(st.logosToPlace, i - 1),
         left |-> FALSE,
         walk |-> Append(st.walk, [tempYCursor |-> y, col |-> rowLogos])]
      break == [st EXCEPT !.left = TRUE]
  IN  IF st.left THEN st
      ELSE IF SwitchingFile(logo.fileIndex, st.tempCurrentFileIndex)
      THEN IF NoSpaceForRow(st.tempYCursor, logoTotalHeight)
           THEN break
           ELSE placed(st.tempYCursor - logoTotalHeight, 0)
      ELSE
        LET logosInCurrentRow == LogosPerRow(logo.logoWidth, gangWidth)
        IN  IF st.tempCurrentRowLogos >= logosInCurrentRow
            THEN IF NoSpaceForRow(st.tempYCursor, logoTotalHeight)
                 THEN break
                 ELSE placed(st.tempYCursor - logoTotalHeight, 0)
            ELSE placed(st.tempYCursor, st.tempCurrentRowLogos)

\* First pass: the iterations on indices from..to (from 1) of
\* remainingLogos, in that order, as those of the lower half followed,
\* unless `break` has left the loop, by those of the upper
RECURSIVE FirstPass(_, _, _, _, _)
FirstPass(logos, gangWidth, from, to, st) ==
  IF from > to THEN st
  ELSE IF from = to THEN FirstPassStep(logos, gangWidth, from, st)
  ELSE LET middle == (from + to) \div 2
           lower == FirstPass(logos, gangWidth, from, middle, st)
       IN  IF lower.left THEN lower
           ELSE FirstPass(logos, gangWidth, middle + 1, to, lower)

\* actualHeightPts and finalHeightInch
FinalHeightInch(maxLengthInches, tempYCursor) ==
  Ceil(maxLengthInches * POINTS_PER_INCH - tempYCursor + safeMarginPts,
       POINTS_PER_INCH)

\* page.drawPage of the second pass
ConsDraw(logo, row, col, xCursor, yCursor) ==
  [fileIndex |-> logo.fileIndex, logoIndex |-> logo.logoIndex,
   row |-> row, col |-> col,
   x |-> xCursor, y |-> yCursor,
   drawX |-> IF logo.isRotated THEN xCursor + logo.logoWidth ELSE xCursor,
   drawY |-> yCursor,
   rotated |-> logo.isRotated,
   w |-> logo.logoWidth, h |-> logo.logoHeight]

\* a faulty XCursorOf: the columns are one logo width apart
MutXCursorOf(currentRowLogos, logoTotalWidth) ==
  safeMarginPts + currentRowLogos * (logoTotalWidth - spacingPts)

\* const xCursor = safeMarginPts + (currentRowLogos * logoTotalWidth)
XCursorOf(currentRowLogos, logoTotalWidth) ==
  safeMarginPts + currentRowLogos * logoTotalWidth

\* One iteration of the second pass, on index i (from 1) of logosToPlace.
\* st holds yCursor, currentFileIndex, currentRowLogos, the number of rows
\* begun and what has been drawn.
SecondPassStep(logos, logosToPlace, gangWidth, i, st) ==
  LET logo == logos[logosToPlace[i] + 1]
      logoTotalWidth == logo.logoWidth + spacingPts
      logoTotalHeight == logo.logoHeight + spacingPts
      newRow ==
        IF SwitchingFile(logo.fileIndex, st.currentFileIndex) THEN TRUE
        ELSE st.currentRowLogos >= LogosPerRow(logo.logoWidth, gangWidth)
      yCursor == IF newRow THEN st.yCursor - logoTotalHeight ELSE st.yCursor
      currentRowLogos == IF newRow THEN 0 ELSE st.currentRowLogos
      rows == IF newRow THEN st.rows + 1 ELSE st.rows
      xCursor == XCursorOf(currentRowLogos, logoTotalWidth)
  IN  [yCursor |-> yCursor,
       currentFileIndex |-> logo.fileIndex,
       currentRowLogos |-> currentRowLogos + 1,
       rows |-> rows,
       placements |->
         Append(st.placements,
                ConsDraw(logo, rows - 1, currentRowLogos, xCursor, yCursor))]

RECURSIVE SecondPass(_, _, _, _, _, _)
\* Second pass: the iterations on indices from..to (from 1) of logosToPlace,
\* in that order, as those of the lower half followed by those of the upper
\* (the test on lower has TLC evaluate the lower half first; it never fails)
SecondPass(logos, logosToPlace, gangWidth, from, to, st) ==
  IF from > to THEN st
  ELSE IF from = to THEN SecondPassStep(logos, logosToPlace, gangWidth, from, st)
  ELSE LET middle == (from + to) \div 2
           lower == SecondPass(logos, logosToPlace, gangWidth, from, middle, st)
       IN  IF Len(lower.placements) > 0
           THEN SecondPass(logos, logosToPlace, gangWidth, middle + 1, to, lower)
           ELSE lower

\* a faulty Splice: the element before the one at index is removed
MutSplice(array, index) ==
  SubSeq(array, 1, index - 1) \o SubSeq(array, index + 1, Len(array))

\* array.splice(index, 1), index from 0
Splice(array, index) ==
  SubSeq(array, 1, index) \o SubSeq(array, index + 2, Len(array))

\* for (let i = logosToPlace.length - 1; i >= 0; i--) remainingLogos.splice(...)
\* the iterations on indices to down to from (from 1) of logosToPlace, as
\* those of the upper half followed, while a logo remains, by those of the
\* lower
RECURSIVE RemovePlaced(_, _, _, _)
RemovePlaced(logos, logosToPlace, from, to) ==
  IF from > to THEN logos
  ELSE IF from = to THEN Splice(logos, logosToPlace[from])
  ELSE LET middle == (from + to) \div 2
           upper == RemovePlaced(logos, logosToPlace, middle + 1, to)
       IN  IF Len(upper) = 0 THEN upper
           ELSE RemovePlaced(upper, logosToPlace, from, middle)

\* A JSON value that req.body.costTables may hold: null, a number, or an
\* object of tier tables by sheet width.
JsonNull == [kind |-> "null", tables |-> <<>>]
JsonNumber == [kind |-> "number", tables |-> <<>>]
JsonObject(tables) == [kind |-> "object", tables |-> tables]

\* req.body.costTables: no such field, text that JSON.parse refuses, or the
\* text of a JSON value
NoCostTables == [text |-> "absent", value |-> JsonNull]
UnparseableCostTables == [text |-> "unparseable", value |-> JsonNull]
JsonCostTables(value) == [text |-> "json", value |-> value]

\* let userCostTables = {22: DEFAULT_COST_TABLE, 30: {...}}
DefaultUserCostTables ==
  JsonObject((22 :> DEFAULT_COST_TABLE) @@ (30 :> DEFAULT_COST_TABLE_30))

\* if (req.body.costTables) { try { userCostTables = JSON.parse(...) }
\*                            catch { log(...) } }
ParseCostTables(costTables) ==
  IF costTables.text = "json" THEN costTables.value
  ELSE DefaultUserCostTables

\* userCostTables[gangWidth] throws a TypeError on null
CostTableThrows(userCostTables) == userCostTables.kind = "null"

\* userCostTables[gangWidth] as calculateCost receives it: undefined, for a
\* width without entry and for a number, is replaced by the default
\* parameter costTable = DEFAULT_COST_TABLE
UserCostTable(userCostTables, gangWidth) ==
  IF userCostTables.kind = "object" /\ gangWidth \in DOMAIN userCostTables.tables
  THEN userCostTables.tables[gangWidth]
  ELSE DEFAULT_COST_TABLE

\* the first pass on the logos that remain
FirstPassOf(r, logos) ==
  FirstPass(logos, r.gangWidth, 1, Len(logos),
            [tempYCursor |-> FirstPassStart(r.maxLengthInches),
             tempCurrentFileIndex |-> -1,
             tempCurrentRowLogos |-> 0,
             logosToPlace |-> <<>>,
             left |-> FALSE,
             walk |-> <<>>])

\* one iteration of the while loop: the sheet pushed to allSheetData
ConsSheetData(r, logos) ==
  LET first == FirstPassOf(r, logos)
      finalHeightInch == FinalHeightInch(r.maxLengthInches, first.tempYCursor)
      second ==
        SecondPass(logos, first.logosToPlace, r.gangWidth, 1,
                   Len(first.logosToPlace),
                   [yCursor |-> finalHeightInch * POINTS_PER_INCH - safeMarginPts,
                    currentFileIndex |-> -1,
                    currentRowLogos |-> 0,
                    rows |-> 0,
                    placements |-> <<>>])
  IN  [width |-> r.gangWidth,
       height |-> finalHeightInch,
       heightPts |-> finalHeightInch * POINTS_PER_INCH,
       cost |-> IF r.userPlan = "pro"
                THEN calculateCost(r.gangWidth, finalHeightInch,
                                   UserCostTable(ParseCostTables(r.costTables),
                                                 r.gangWidth))
                ELSE Null,
       placements |-> second.placements]

\* a faulty CountMismatch: only quantities that are too few are refused
MutCountMismatch(files, quantities) == Len(files) > Len(quantities)

\* if (!files || files.length === 0)
NoFiles(files) == Len(files) = 0

\* if (files.length !== quantities.length)
CountMismatch(files, quantities) == Len(files) # Len(quantities)

ConsRequests ==
  [route : {"consolidated"},
   files : SeqsUpTo(LogoSizes, MaxFiles),
   quantities : SeqsUpTo(0..MaxQuantity, MaxFiles),
   gangWidth : GangWidths, maxLengthInches : MaxLengths,
   userPlan : UserPlans, costTables : {NoCostTables}]

\* the handler up to the while loop: validation, Smart Fit, the flat list
ConsStart(r) ==
  /\ req' = r
  /\ sheetIndex' = 0
  /\ allSheetData' = <<>>
  /\ UNCHANGED <<remaining, cc, serverVars>>
  /\ IF NoFiles(r.files)
     THEN /\ pc' = "error"
          /\ res' = ServerError("No files uploaded")
          /\ UNCHANGED <<logoData, remainingLogos>>
     ELSE IF CountMismatch(r.files, r.quantities)
     THEN /\ pc' = "error"
          /\ res' = ServerError("File count doesn't match quantity count")
          /\ UNCHANGED <<logoData, remainingLogos>>
     ELSE /\ pc' = "consolidated"
          /\ logoData' = CollectLogoData(r)
          /\ remainingLogos' = AllLogos(CollectLogoData(r))
          /\ UNCHANGED res

\* one iteration of while (remainingLogos.length > 0); the TypeError of
\* userCostTables[gangWidth] leaves the loop for the catch block before the
\* sheet is pushed
ConsSheet ==
  /\ pc = "consolidated"
  /\ Len(remainingLogos) > 0
  /\ Len(allSheetData) < SheetCap
  /\ sheetIndex' = sheetIndex + 1
  /\ remainingLogos' =
       LET logosToPlace == FirstPassOf(req, remainingLogos).logosToPlace
       IN  RemovePlaced(remainingLogos, logosToPlace, 1, Len(logosToPlace))
  /\ IF req.userPlan = "pro" /\ CostTableThrows(ParseCostTables(req.costTables))
     THEN /\ pc' = "error"
          /\ res' = ServerError("Cannot read properties of null")
          /\ UNCHANGED allSheetData
     ELSE /\ allSheetData' = Append(allSheetData, ConsSheetData(req, remainingLogos))
          /\ UNCHANGED <<pc, res>>
  /\ UNCHANGED <<req, remaining, logoData, cc, serverVars>>

\* after the loop: totalCost and res.json
ConsRespond ==
  /\ pc = "consolidated"
  /\ Len(remainingLogos) = 0
  /\ pc' = "done"
  /\ res' = JsonResponse(allSheetData, TotalCost(allSheetData, req.userPlan),
                         req.userPlan)
  /\ UNCHANGED <<req, remaining, sheetIndex, allSheetData, logoData,
                 remainingLogos, cc, serverVars>>

(***************************************************************************)
(* The server serving requests one after the other.                        *)
(***************************************************************************)
\* a request arrives while the server is idle
MergeRequest == pc = "idle" /\ \E r \in MergeRequests : MergeStart(r)
ConsRequest == pc = "idle" /\ \E r \in ConsRequests : ConsStart(r)

Next ==
  \/ MergeRequest
  \/ MergeSheet
  \/ MergeRespond
  \/ ConsRequest
  \/ ConsSheet
  \/ ConsRespond
  \/ Finish

Spec == Init /\ [][Next]_vars

(***************************************************************************)
(* /merge-consolidated with cost tables supplied by the caller.            *)
(***************************************************************************)
\* a tier table of the caller, and one without tiers
CustomCostTable == (12 :> 100) @@ (24 :> 200) @@ (48 :> 400)
EmptyCostTable == <<>>

\* what req.body.costTables may be
CostTablesInputs ==
  {NoCostTables, UnparseableCostTables,
   JsonCostTables(JsonNull), JsonCostTables(JsonNumber),
   JsonCostTables(JsonObject(22 :> CustomCostTable)),
   JsonCostTables(JsonObject((22 :> EmptyCostTable) @@ (30 :> EmptyCostTable))),
   JsonCostTables(JsonObject((22 :> CustomCostTable) @@ (30 :> CustomCostTable)))}

\* jobs of one file with any costTables
ConsTablesRequests ==
  [route : {"consolidated"},
   files : {<<size>> : size \in LogoSizes},
   quantities : {<<quantity>> : quantity \in 1..MaxQuantity},
   gangWidth : GangWidths, maxLengthInches : MaxLengths,
   userPlan : UserPlans, costTables : CostTablesInputs]

ConsTablesRequest == pc = "idle" /\ \E r \in ConsTablesRequests : ConsStart(r)

NextTables ==
  \/ ConsTablesRequest
  \/ ConsSheet
  \/ ConsRespond
  \/ Finish

SpecTables == Init /\ [][NextTables]_vars

(***************************************************************************)
(* /merge-consolidated on a logo of 4 in x 2 in, on a 22 in sheet of the   *)
(* default maximum length.                                                 *)
(***************************************************************************)
\* 4 in x 2 in at POINTS_PER_INCH
ScenarioLogo == <<4 * POINTS_PER_INCH, 2 * POINTS_PER_INCH>>

\* parseInt(req.body.maxLength, 10) || 200
DefaultMaxLength == 200

ScenarioRequests ==
  [route : {"consolidated"},
   files : {<<ScenarioLogo>>},
   quantities : {<<quantity>> : quantity \in 1..MaxScenarioQuantity},
   gangWidth : {22}, maxLengthInches : {DefaultMaxLength},
   userPlan : UserPlans, costTables : {NoCostTables}]

ScenarioRequest == pc = "idle" /\ \E r \in ScenarioRequests : ConsStart(r)

NextScenario ==
  \/ ScenarioRequest
  \/ ConsSheet
  \/ ConsRespond
  \/ Finish

SpecScenario == Init /\ [][NextScenario]_vars

(***************************************************************************)
(* calculateCost called on its own, on any table and on the stock table.   *)
(***************************************************************************)
\* the tier heights and prices of the tables handed to calculateCost
TierKeys == {12, 24, 30, 48}
TierPrices == {0, 528, 1056}
CostTables == UNION {[K -> TierPrices] : K \in SUBSET TierKeys}

CostCallOf(heightInches, costTable) ==
  [table |-> costTable, height |-> heightInches,
   result |-> calculateCost(22, heightInches, costTable)]

\* one call of calculateCost(width, height, table)
CostCall ==
  /\ cc.calls = <<>>
  /\ \E costTable \in CostTables, heightInches \in 1..MaxCostHeight :
    /\ cc' = [calls |-> <<CostCallOf(heightInches, costTable)>>]
    /\ UNCHANGED packerVars

\* one call of calculateCost(width, height): the table is the default one;
\* two sheets are priced one after the other
StockCall ==
  /\ Len(cc.calls) < 2
  /\ \E heightInches \in 1..MaxStockHeight :
    /\ cc' = [calls |-> Append(cc.calls, CostCallOf(heightInches, DEFAULT_COST_TABLE))]
    /\ UNCHANGED packerVars

SpecCost == Init /\ [][CostCall]_vars

SpecStock == Init /\ [][StockCall]_vars

(***************************************************************************)
(* The layout calculator called on its own.                                *)
(***************************************************************************)
\* the sides, in points, of the logos handed to the layout calculator
LayoutSides == {LayoutUnit * k : k \in 1..MaxLayoutSteps}

\* the layout of a logo of layout size width x height: that of
\* calculateLayout, and logosPerRow and rowsPerSheet as /merge computes them
LayoutCallOf(width, height, gangWidth, maxLengthInches) ==
  [width |-> width, height |-> height, gangWidth |-> gangWidth,
   maxLengthInches |-> maxLengthInches,
   layout |-> calculateLayout(width, height, FALSE, gangWidth, maxLengthInches),
   logosPerRow |-> LogosPerRow(width, gangWidth),
   rowsPerSheet |-> RowsPerSheet(height, maxLengthInches)]

\* one layout computation
LayoutCall ==
  /\ cc.calls = <<>>
  /\ \E width \in LayoutSides, height \in LayoutSides,
        gangWidth \in GangWidths, maxLengthInches \in MaxLengths :
    /\ cc' = [calls |-> <<LayoutCallOf(width, height, gangWidth, maxLengthInches)>>]
    /\ UNCHANGED packerVars

SpecLayout == Init /\ [][LayoutCall]_vars

(***************************************************************************)
(* The download limit of free users: /merge and /merge-consolidated        *)
(* served on several connections at once.  A handler runs without          *)
(* interruption up to its first await (PDFDocument.load) and from there to *)
(* its answer.                                                             *)
(***************************************************************************)
\* const FREE_DOWNLOAD_LIMIT = 5
FREE_DOWNLOAD_LIMIT == 5

\* the Authorization header: none, a token jwt.verify refuses, or a token
\* signed by the server for { email, plan }
NoToken == [kind |-> "none"]
InvalidToken == [kind |-> "invalid"]
SignedToken(email, plan) == [kind |-> "signed", email |-> email, plan |-> plan]

\* decoded.plan || 'free'
OrFree(plan) == IF plan = "" THEN "free" ELSE plan

\* userPlan and userEmail as the handlers derive them from the header
Decode(token) ==
  IF token.kind = "signed"
  THEN [userPlan |-> OrFree(token.plan), userEmail |-> token.email]
  ELSE [userPlan |-> "free", userEmail |-> NoEmail]

\* if (userPlan === 'free' && userEmail)
Limited(caller) == caller.userPlan = "free" /\ caller.userEmail # NoEmail

\* the common head of checkDownloadLimit and incrementDownloadCount: the
\* entry is created if absent and reset if it is of another month
UserCounts(counts, email, month) ==
  IF email \notin DOMAIN counts THEN [count |-> 0, resetDate |-> month]
  ELSE IF counts[email].resetDate # month THEN [count |-> 0, resetDate |-> month]
  ELSE counts[email]

\* checkDownloadLimit(email): the map afterwards and canDownload
checkDownloadLimit(counts, email, month) ==
  LET userCounts == UserCounts(counts, email, month)
  IN  [counts |-> MapSet(counts, email, userCounts),
       canDownload |-> userCounts.count < FREE_DOWNLOAD_LIMIT]

\* a faulty incrementDownloadCount: a download counts twice
MutIncrementDownloadCount(counts, email, month) ==
  LET userCounts == UserCounts(counts, email, month)
  IN  MapSet(counts, email, [userCounts EXCEPT !.count = @ + 2])

\* incrementDownloadCount(email): the map afterwards
incrementDownloadCount(counts, email, month) ==
  LET userCounts == UserCounts(counts, email, month)
  IN  MapSet(counts, email, [userCounts EXCEPT !.count = @ + 1])

\* the jobs of the requests: a logo that fits, one that is too wide, a
\* missing file, a quantity of 0, missing quantities, costTables = null
DownloadJobs(userPlan) ==
  [route : {"merge"}, quantity : {0, 1}, rotate : {FALSE},
   gangWidth : {22}, maxLengthInches : {24},
   file : {NoFile, <<700, 54>>, <<1600, 1600>>}, userPlan : {userPlan}]
  \cup
  [route : {"consolidated"},
   files : {<<>>, <<<<700, 54>>>>}, quantities : {<<>>, <<1>>},
   gangWidth : {22}, maxLengthInches : {24},
   userPlan : {userPlan},
   costTables : {NoCostTables, JsonCostTables(JsonNull)}]

DownloadTokens ==
  {NoToken, InvalidToken, SignedToken(UserEmail, "free"),
   SignedToken(UserEmail, "pro")}

DownloadRequests ==
  {[token |-> token, job |-> job] :
     token \in DownloadTokens, job \in DownloadJobs("free") \cup DownloadJobs("pro")}

\* the errors thrown before the first await
ThrowsAtOnce(job) ==
  IF job.route = "merge"
  THEN job.file = NoFile \/ InvalidQuantity(job.quantity)
  ELSE NoFiles(job.files) \/ CountMismatch(job.files, job.quantities)

\* the errors thrown after it
ThrowsLater(job) ==
  IF job.route = "merge"
  THEN LogoTooWide(MergeLogosPerRow(job))
  ELSE job.userPlan = "pro" /\ CostTableThrows(ParseCostTables(job.costTables))

\* an answer of a handler
Reply(caller, status) ==
  [seq |-> 1 - reply.seq, status |-> status,
   userPlan |-> caller.userPlan, userEmail |-> caller.userEmail]

\* a request arrives on connection h: the handler runs to its first await
DownloadBegin(h, r) ==
  LET caller == Decode(r.token)
      downloadLimit ==
        IF Limited(caller)
        THEN checkDownloadLimit(downloadCounts, caller.userEmail, currentMonth)
        ELSE [counts |-> downloadCounts, canDownload |-> TRUE]
  IN  /\ inflight[h] = NoRequest
      /\ r.job.userPlan = caller.userPlan
      /\ downloadCounts' = downloadLimit.counts
      /\ IF ~downloadLimit.canDownload
         THEN /\ reply' = Reply(caller, 429)
              /\ UNCHANGED inflight
         ELSE IF ThrowsAtOnce(r.job)
         THEN /\ reply' = Reply(caller, 500)
              /\ UNCHANGED inflight
         ELSE /\ inflight' = [inflight EXCEPT ![h] =
                                [caller |-> caller, job |-> r.job]]
              /\ UNCHANGED reply
      /\ UNCHANGED <<currentMonth, sheetsSent>>

\* the handler of connection h runs from its await to its answer: the catch
\* block, or the sheets, incrementDownloadCount and res.json
DownloadComplete(h) ==
  /\ inflight[h] # NoRequest
  /\ LET caller == inflight[h].caller
     IN  IF ThrowsLater(inflight[h].job)
         THEN /\ reply' = Reply(caller, 500)
              /\ UNCHANGED <<downloadCounts, sheetsSent>>
         ELSE /\ reply' = Reply(caller, 200)
              /\ IF Limited(caller)
                 THEN /\ downloadCounts' =
                           incrementDownloadCount(downloadCounts,
                                                  caller.userEmail, currentMonth)
                      /\ sheetsSent' = sheetsSent + 1
                 ELSE UNCHANGED <<downloadCounts, sheetsSent>>
  /\ inflight' = [inflight EXCEPT ![h] = NoRequest]
  /\ UNCHANGED currentMonth

\* the calendar month ends
NextMonth ==
  /\ currentMonth < MaxMonths
  /\ currentMonth' = currentMonth + 1
  /\ sheetsSent' = 0
  /\ UNCHANGED <<downloadCounts, inflight, reply>>
  /\ UNCHANGED <<packerState, cc, userVars>>

DownloadRequest ==
  /\ \E h \in Handlers : \E r \in DownloadRequests : DownloadBegin(h, r)
  /\ UNCHANGED <<packerState, cc, userVars>>

DownloadAnswer ==
  /\ \E h \in Handlers : DownloadComplete(h)
  /\ UNCHANGED <<packerState, cc, userVars>>

NextDownloads ==
  \/ DownloadRequest
  \/ DownloadAnswer
  \/ NextMonth

SpecDownloads == Init /\ [][NextDownloads]_vars

(***************************************************************************)
(* The account routes: /api/register, /api/login, /api/profile and the     *)
(* /api/admin routes, served one after the other.  `users` is what the     *)
(* routes read; user-management.js reads and writes users.json.            *)
(***************************************************************************)
\* the passwords of the requests ("" is a missing field) and password.length
Passwords == {"", "secret", "password-1", "password-2", ADMIN_PASSWORD}
PasswordLength(password) ==
  CASE password = "" -> 0
    [] password = "secret" -> 6
    [] password = ADMIN_PASSWORD -> 8
    [] OTHER -> 10

\* req.body of /api/register
RegisterBodies ==
  [firstName : {"", "Ann"}, lastName : {"Lee"},
   email : {"", UserEmail, ADMIN_EMAIL},
   password : Passwords, plan : {"", "free", "pro"}]

\* req.body of /api/login
LoginBodies == [email : {"", UserEmail, ADMIN_EMAIL}, password : Passwords]

\* the Authorization headers of the protected routes
BearerTokens == tokens \cup {NoToken, InvalidToken}

\* an answer of an account route
AuthAnswer(route, body, status, error) ==
  [route |-> route, body |-> body, status |-> status, error |-> error]

\* users.has(email) and users.get(email) throw a TypeError unless `users`
\* is a Map
NotAMap(store) == store.kind # "Map"
UsersHas(store, email) == email \in DOMAIN store.entries

\* if (!firstName || !lastName || !email || !password)
MissingField(body) ==
  body.firstName = "" \/ body.lastName = "" \/ body.email = "" \/ body.password = ""

\* if (password.length < 8)
ShortPassword(password) == PasswordLength(password) < 8

\* const user = { ..., password: hashedPassword, plan: plan || 'free' }
NewUser(body) ==
  [email |-> body.email, password |-> Hash(body.password),
   plan |-> OrFree(body.plan)]

\* addUser(email, userData): users.json afterwards and the value returned
addUser(file, email, userData) ==
  [file |-> MapSet(file, email, userData), returned |-> userData]

\* app.post('/api/register')
Register(body) ==
  IF MissingField(body)
  THEN /\ authRes' = AuthAnswer("register", body, 400,
                                "All required fields must be provided")
       /\ UNCHANGED <<users, usersFile, tokens>>
  ELSE IF ShortPassword(body.password)
  THEN /\ authRes' = AuthAnswer("register", body, 400,
                                "Password must be at least 8 characters long")
       /\ UNCHANGED <<users, usersFile, tokens>>
  ELSE IF NotAMap(users)
  THEN /\ authRes' = AuthAnswer("register", body, 500, "Internal server error")
       /\ UNCHANGED <<users, usersFile, tokens>>
  ELSE IF UsersHas(users, body.email)
  THEN /\ authRes' = AuthAnswer("register", body, 400, "User already exists")
       /\ UNCHANGED <<users, usersFile, tokens>>
  ELSE LET added == addUser(usersFile, body.email, NewUser(body))
       IN  /\ usersFile' = added.file
           /\ users' = UsersObject(added.returned)
           /\ tokens' = tokens \cup
                          {SignedToken(body.email, NewUser(body).plan)}
           /\ authRes' = AuthAnswer("register", body, 200, "")

\* app.post('/api/login')
Login(body) ==
  /\ UNCHANGED <<users, usersFile>>
  /\ IF body.email = "" \/ body.password = ""
     THEN /\ authRes' = AuthAnswer("login", body, 400,
                                   "Email and password are required")
          /\ UNCHANGED tokens
     ELSE IF NotAMap(users)
     THEN /\ authRes' = AuthAnswer("login", body, 500, "Internal server error")
          /\ UNCHANGED tokens
     ELSE IF ~UsersHas(users, body.email)
     THEN /\ authRes' = AuthAnswer("login", body, 401, "Invalid credentials")
          /\ UNCHANGED tokens
     ELSE IF ~Compare(body.password, users.entries[body.email].password)
     THEN /\ authRes' = AuthAnswer("login", body, 401, "Invalid credentials")
          /\ UNCHANGED tokens
     ELSE /\ tokens' = tokens \cup
                         {SignedToken(body.email, users.entries[body.email].plan)}
          /\ authRes' = AuthAnswer("login", body, 200, "")

\* authenticateToken: the answer that ends the request, if any
AuthenticateToken(route, token) ==
  IF token.kind = "none"
  THEN AuthAnswer(route, token, 401, "Access token required")
  ELSE IF token.kind = "invalid"
  THEN AuthAnswer(route, token, 403, "Invalid token")
  ELSE NoResponse

\* app.get('/api/profile')
Profile(token) ==
  /\ UNCHANGED <<users, usersFile, tokens>>
  /\ authRes' =
       IF AuthenticateToken("profile", token) # NoResponse
       THEN AuthenticateToken("profile", token)
       ELSE IF NotAMap(users)
       THEN AuthAnswer("profile", token, 500, "Internal server error")
       ELSE IF ~UsersHas(users, token.email)
       THEN AuthAnswer("profile", token, 404, "User not found")
       ELSE AuthAnswer("profile", token, 200, "")

\* the head of the admin routes: the answer that ends the request, if any
AdminOnly(route, token) ==
  IF AuthenticateToken(route, token) # NoResponse
  THEN AuthenticateToken(route, token)
  ELSE IF NotAMap(users)
  THEN AuthAnswer(route, token, 500, "Internal server error")
  ELSE IF ~UsersHas(users, token.email) \/ token.email # ADMIN_EMAIL
  THEN AuthAnswer(route, token, 403, "Admin access required")
  ELSE NoResponse

\* app.get('/api/admin/users')
AdminUsers(token) ==
  /\ UNCHANGED <<users, usersFile, tokens>>
  /\ authRes' =
       IF AdminOnly("admin/users", token) # NoResponse
       THEN AdminOnly("admin/users", token)
       ELSE AuthAnswer("admin/users", token, 200, "")

\* app.delete('/api/admin/users/:email'): deleteUser, then users = loadUsers()
AdminDelete(token, email) ==
  /\ UNCHANGED tokens
  /\ IF AdminOnly("admin/delete", token) # NoResponse
     THEN /\ authRes' = AdminOnly("admin/delete", token)
          /\ UNCHANGED <<users, usersFile>>
     ELSE IF email \in DOMAIN usersFile
     THEN /\ usersFile' = MapDelete(usersFile, email)
          /\ users' = UsersMap(MapDelete(usersFile, email))
          /\ authRes' = AuthAnswer("admin/delete", token, 200, "")
     ELSE /\ authRes' = AuthAnswer("admin/delete", token, 404, "User not found")
          /\ UNCHANGED <<users, usersFile>>

\* app.put('/api/admin/users/:email/plan'): updateUser, then
\* users = loadUsers()
AdminPlan(token, email, plan) ==
  /\ UNCHANGED tokens
  /\ IF AdminOnly("admin/plan", token) # NoResponse
     THEN /\ authRes' = AdminOnly("admin/plan", token)
          /\ UNCHANGED <<users, usersFile>>
     ELSE IF plan \notin {"free", "pro"}
     THEN /\ authRes' = AuthAnswer("admin/plan", token, 400, "Invalid plan")
          /\ UNCHANGED <<users, usersFile>>
     ELSE IF email \in DOMAIN usersFile
     THEN /\ usersFile' = [usersFile EXCEPT ![email].plan = plan]
          /\ users' = UsersMap([usersFile EXCEPT ![email].plan = plan])
          /\ authRes' = AuthAnswer("admin/plan", token, 200, "")
     ELSE /\ authRes' = AuthAnswer("admin/plan", token, 404, "User not found")
          /\ UNCHANGED <<users, usersFile>>

RegisterRequest ==
  /\ \E body \in RegisterBodies : Register(body)
  /\ UNCHANGED <<packerState, cc, downloadVars>>

LoginRequest ==
  /\ \E body \in LoginBodies : Login(body)
  /\ UNCHANGED <<packerState, cc, downloadVars>>

ProfileRequest ==
  /\ \E token \in BearerTokens : Profile(token)
  /\ UNCHANGED <<packerState, cc, downloadVars>>

AdminUsersRequest ==
  /\ \E token \in BearerTokens : AdminUsers(token)
  /\ UNCHANGED <<packerState, cc, downloadVars>>

AdminDeleteRequest ==
  /\ \E token \in BearerTokens, email \in {UserEmail, ADMIN_EMAIL} :
       AdminDelete(token, email)
  /\ UNCHANGED <<packerState, cc, downloadVars>>

AdminPlanRequest ==
  /\ \E token \in BearerTokens, email \in {UserEmail, ADMIN_EMAIL},
        plan \in {"", "free", "pro"} : AdminPlan(token, email, plan)
  /\ UNCHANGED <<packerState, cc, downloadVars>>

NextUsers ==
  \/ RegisterRequest
  \/ LoginRequest
  \/ ProfileRequest
  \/ AdminUsersRequest
  \/ AdminDeleteRequest
  \/ AdminPlanRequest

SpecUsers == Init /\ [][NextUsers]_vars

(***************************************************************************)
(* Properties.                                                             *)
(***************************************************************************)
\* the number of logos drawn on each sheet
ItemsOnSheets(sheets) == [i \in DOMAIN sheets |-> Len(sheets[i].placements)]

\* the sheets of the request being served
Sheets == {allSheetData[i] : i \in DOMAIN allSheetData}

\* C1: single-file packing conserves quantity: when an accepted job
\* (quantity >= 1, logosPerRow >= 1, rowsPerSheet >= 1) has finished its last
\* sheet, the numbers of logos on its sheets sum to the requested quantity
\* and `remaining` is 0; the response carries exactly those sheets.
C1_MergeConservation ==
  (req.route = "merge" /\ pc = "done") =>
    /\ req.quantity >= 1
    /\ MergeLogosPerRow(req) >= 1
    /\ MergeRowsPerSheet(req) >= 1
    /\ SumSeq(ItemsOnSheets(allSheetData)) = req.quantity
    /\ remaining = 0
    /\ res.status = 200
    /\ res.sheets = allSheetData

\* a finished single-file job of several sheets whose last sheet is not full
C1_Witness ==
  /\ req.route = "merge"
  /\ pc = "done"
  /\ Len(allSheetData) >= 2
  /\ Len(allSheetData[Len(allSheetData)].placements) <
       Len(allSheetData[1].placements)

\* C2: file contiguity of the consolidated packer: on every sheet no row
\* (the logos drawn at one y) holds logos of two files, and the first logo
\* of a new file starts a new row, lower on the sheet, in its first column,
\* even when the row before has free columns.  Two files of one logo per
\* row, quantities 3 and 2, give three rows of the first file followed by
\* two rows of the second.
C2_FileContiguity ==
  req.route = "consolidated" =>
    /\ \A s \in Sheets :
         /\ \A i, j \in DOMAIN s.placements :
              s.placements[i].y = s.placements[j].y =>
                s.placements[i].fileIndex = s.placements[j].fileIndex
         /\ \A i \in DOMAIN s.placements :
              (i > 1 /\ s.placements[i].fileIndex # s.placements[i - 1].fileIndex) =>
                /\ s.placements[i].y < s.placements[i - 1].y
                /\ s.placements[i].x = safeMarginPts
    /\ ( /\ pc = "done"
         /\ req.files = <<<<1000, 108>>, <<1000, 108>>>>
         /\ req.quantities = <<3, 2>>
         /\ req.gangWidth = 22
         /\ req.maxLengthInches = 24 ) =>
         /\ Len(allSheetData) = 1
         /\ [i \in 1..5 |-> allSheetData[1].placements[i].fileIndex] = <<0, 0, 0, 1, 1>>
         /\ [i \in 1..5 |-> allSheetData[1].placements[i].row] = <<0, 1, 2, 3, 4>>
         /\ Cardinality({allSheetData[1].placements[i].y : i \in 1..5}) = 5

\* a sheet on which a new file begins although the row before it has a free
\* column
C2_Witness ==
  /\ req.route = "consolidated"
  /\ \E s \in Sheets : \E i \in DOMAIN s.placements :
       /\ i > 1
       /\ s.placements[i].fileIndex # s.placements[i - 1].fileIndex
       /\ s.placements[i - 1].col + 1 <
            LogosPerRow(s.placements[i - 1].w, req.gangWidth)

\* C3: the consolidated packer never emits a sheet with no logo on it: a
\* first pass that selects nothing on a fresh sheet ends the job with an
\* error, so no state holds an empty sheet while logos remain.
C3_NoEmptySheet ==
  req.route = "consolidated" =>
    \A s \in Sheets : Len(s.placements) > 0

\* the quantity a request asks for in total
TotalQuantity(r) ==
  IF r.route = "merge" THEN r.quantity ELSE SumSeq(r.quantities)

\* C4: the sheet loops end within a number of iterations bounded by the
\* total requested quantity, in both packers, also when a logo's height
\* exceeds the usable maximum length.
C4_LoopBounded ==
  pc \in {"merge", "consolidated"} => sheetIndex <= TotalQuantity(req)

\* C5: single-file mode: a logo wider, in the chosen orientation, than the
\* usable sheet width (logosPerRow < 1) fails the job with the error "Logo
\* too wide for sheet" and produces no sheet.
C5_MergeTooWideFails ==
  ( /\ req.route = "merge"
    /\ req.file # NoFile
    /\ ~InvalidQuantity(req.quantity)
    /\ MergeLogosPerRow(req) < 1 ) =>
    /\ pc = "error"
    /\ res = ServerError("Logo too wide for sheet")
    /\ allSheetData = <<>>

\* a single-file job refused because its logo is too wide
C5_Witness ==
  /\ req.route = "merge"
  /\ pc = "error"
  /\ res = ServerError("Logo too wide for sheet")
  /\ MergeLogosPerRow(req) < 1

\* a logo too wide for the sheet upright and rotated
TooWideBothWays(size, gangWidth) ==
  /\ LogosPerRow(size[1], gangWidth) = 0
  /\ LogosPerRow(size[2], gangWidth) = 0

\* C6: consolidated mode: when one file's logo is too wide for the sheet in
\* both orientations the whole job is aborted with an error: the job never
\* answers with sheets and no copy of that logo is ever drawn on a sheet.
C6_ConsTooWideAborts ==
  ( /\ req.route = "consolidated"
    /\ Len(req.files) = Len(req.quantities) ) =>
    \A k \in DOMAIN req.files :
      (req.quantities[k] >= 1 /\ TooWideBothWays(req.files[k], req.gangWidth)) =>
        /\ pc # "done"
        /\ \A s \in Sheets : \A i \in DOMAIN s.placements :
             s.placements[i].fileIndex # k - 1

\* the rows of a sheet: the y of each row with its logo height
RowsOf(sheet) ==
  {<<sheet.placements[i].y, sheet.placements[i].h>> : i \in DOMAIN sheet.placements}

RECURSIVE SumHeights(_)
SumHeights(rows) ==
  IF rows = {} THEN 0
  ELSE LET r == CHOOSE x \in rows : TRUE
       IN  r[2] + SumHeights(rows \ {r})

\* the smallest whole number of inches holding the rows: the two margins,
\* each row's logo height, and the spacing between consecutive rows
MinimalHeightInch(rows) ==
  Ceil(2 * safeMarginPts + SumHeights(rows) + (Cardinality(rows) - 1) * spacingPts,
       POINTS_PER_INCH)

\* C7: minimal height: every sheet of either packer is as high, in whole
\* inches, as the smallest whole number of inches that holds the rows drawn
\* on it.
C7_MinimalHeight ==
  \A s \in Sheets :
    Len(s.placements) > 0 => s.height = MinimalHeightInch(RowsOf(s))

\* C8: every sheet of either packer is at most as high as the configured
\* maximum sheet length.
C8_HeightWithinMax ==
  \A s \in Sheets :
    /\ s.height <= req.maxLengthInches
    /\ s.heightPts <= req.maxLengthInches * POINTS_PER_INCH

\* a sheet with logos on it that is as high as the maximum length
C8_Witness ==
  \E s \in Sheets :
    /\ Len(s.placements) > 0
    /\ s.height = req.maxLengthInches

\* the least multiple of 12 that is at least heightInches
TierCeiling(heightInches) ==
  CHOOSE m \in {12 * k : k \in 0..heightInches} :
    m >= heightInches /\ m - 12 < heightInches

\* the price the tier rule gives: the exact tier, else the smallest tier
\* above, else the largest tier
TierPrice(costTable, heightInches) ==
  LET roundedHeight == TierCeiling(heightInches)
      above == {k \in DOMAIN costTable : k >= roundedHeight}
  IN  IF roundedHeight \in DOMAIN costTable THEN costTable[roundedHeight]
      ELSE IF above # {}
      THEN costTable[CHOOSE k \in above : \A l \in above : k <= l]
      ELSE costTable[CHOOSE k \in DOMAIN costTable : \A l \in DOMAIN costTable : l <= k]

\* C9: calculateCost returns the price of the tier ceil(height / 12) * 12
\* when the table has it, else that of the smallest tier at or above it,
\* else that of the largest tier; the table {12: 5.28, 24: 10.56} prices a
\* height of 18 at 10.56.
C9_CostTiers ==
  \A i \in DOMAIN cc.calls :
    LET c == cc.calls[i]
    IN  /\ DOMAIN c.table # {} => c.result = TierPrice(c.table, c.height)
        /\ (c.table = (12 :> 528) @@ (24 :> 1056) /\ c.height = 18) =>
             c.result = 1056

\* the two-tier table priced at a height of 18, between its two tiers
C9_Witness ==
  \E i \in DOMAIN cc.calls :
    /\ cc.calls[i].table = (12 :> 528) @@ (24 :> 1056)
    /\ cc.calls[i].height = 18
    /\ cc.calls[i].result = 1056

\* C10: cost monotonicity: with the stock tier table a sheet that is not
\* higher does not cost more.
C10_CostMonotone ==
  \A i, j \in DOMAIN cc.calls :
    ( /\ cc.calls[i].table = DEFAULT_COST_TABLE
      /\ cc.calls[j].table = DEFAULT_COST_TABLE
      /\ cc.calls[i].height <= cc.calls[j].height ) =>
      cc.calls[i].result <= cc.calls[j].result

\* two sheets priced with the stock table, the second higher than every
\* tier and the first between two tiers
C10_Witness ==
  /\ Len(cc.calls) = 2
  /\ cc.calls[1].table = DEFAULT_COST_TABLE
  /\ cc.calls[1].height = 70
  /\ cc.calls[2].height = 210
  /\ cc.calls[1].result < cc.calls[2].result

\* the logos per sheet of the layout calculator's formulas: logos per row
\* times rows per sheet
ItemsPerSheet(width, height, gangWidth, maxLengthInches) ==
  LogosPerRow(width, gangWidth) * RowsPerSheet(height, maxLengthInches)

\* the logoData entry of file k (from 1) respects Smart Fit
SmartFitOf(k) ==
  LET upright == ItemsPerSheet(req.files[k][1], req.files[k][2],
                               req.gangWidth, req.maxLengthInches)
      turned == ItemsPerSheet(req.files[k][2], req.files[k][1],
                              req.gangWidth, req.maxLengthInches)
      d == logoData[k]
  IN  /\ d.isRotated <=> turned > upright
      /\ turned = upright => ~d.isRotated
      /\ d.logoWidth = IF d.isRotated THEN req.files[k][2] ELSE req.files[k][1]
      /\ d.logoHeight = IF d.isRotated THEN req.files[k][1] ELSE req.files[k][2]

\* C11: Smart Fit chooses the rotated orientation only when it yields
\* strictly more logos per sheet than the upright one; on a tie (both 0
\* included) the logo stays upright; the layout width and height are the
\* native ones, swapped exactly when the logo is rotated.
C11_SmartFit ==
  (req.route = "consolidated" /\ pc \in {"consolidated", "done"}) =>
    \A k \in DOMAIN logoData : SmartFitOf(k)

\* a job with a logo that Smart Fit rotates and a logo that ties with as
\* many logos per sheet, not 0, in both orientations
C11_Witness ==
  /\ req.route = "consolidated"
  /\ pc = "consolidated"
  /\ \E k \in DOMAIN logoData : logoData[k].isRotated
  /\ \E k \in DOMAIN logoData :
       /\ ~logoData[k].isRotated
       /\ logoData[k].layout.logosPerSheet >= 1
       /\ ItemsPerSheet(req.files[k][2], req.files[k][1],
                        req.gangWidth, req.maxLengthInches)
            = logoData[k].layout.logosPerSheet

\* n logos of side `side`, spacingPts apart between the two safe margins,
\* are the most that `length` points hold, and they end within it as the
\* capacity inequality puts it
CapacityOf(n, side, length) ==
  /\ n * side + 2 * safeMarginPts - spacingPts <= length
  /\ n * (side + spacingPts) <= length - 2 * safeMarginPts + spacingPts
  /\ (n + 1) * (side + spacingPts) > length - 2 * safeMarginPts + spacingPts

\* C12: for every layout with logosPerRow >= 1 and rowsPerSheet >= 1,
\* logosPerRow * layoutWidth + 2 * margin - spacing <= sheet width and
\* rowsPerSheet * layoutHeight + 2 * margin - spacing <= maximum length,
\* logosPerRow and rowsPerSheet being the floors of
\* (length - 2 * margin + spacing) / (side + spacing); for calculateLayout
\* and for the layout of /merge.
C12_Capacity ==
  \A i \in DOMAIN cc.calls :
    LET c == cc.calls[i]
        sheetWidthPts == c.gangWidth * POINTS_PER_INCH
        maxHeightPts == c.maxLengthInches * POINTS_PER_INCH
    IN  /\ (c.layout.logosPerRow >= 1 /\ c.layout.rowsPerSheet >= 1) =>
             /\ CapacityOf(c.layout.logosPerRow, c.width, sheetWidthPts)
             /\ CapacityOf(c.layout.rowsPerSheet, c.height, maxHeightPts)
        /\ (c.logosPerRow >= 1 /\ c.rowsPerSheet >= 1) =>
             /\ CapacityOf(c.logosPerRow, c.width, sheetWidthPts)
             /\ CapacityOf(c.rowsPerSheet, c.height, maxHeightPts)

\* a layout of several logos per row and several rows where one more logo
\* per row would fit the sheet width but not between the safe margins
C12_Witness ==
  \E i \in DOMAIN cc.calls :
    LET c == cc.calls[i]
    IN  /\ c.layout.logosPerRow >= 2
        /\ c.layout.rowsPerSheet >= 2
        /\ c.logosPerRow = c.layout.logosPerRow
        /\ (c.logosPerRow + 1) * (c.width + spacingPts) - spacingPts
             <= c.gangWidth * POINTS_PER_INCH

\* C13: a job with a zero or negative quantity is refused before any layout
\* is computed and produces no sheet: the quantity of a /merge job, and
\* every entry of the quantities of a /merge-consolidated job.
C13_BadQuantityRejected ==
  /\ (req.route = "merge" /\ req.file # NoFile /\ req.quantity <= 0) =>
       /\ pc = "error"
       /\ res = ServerError("Invalid quantity")
       /\ allSheetData = <<>>
  /\ (/\ req.route = "consolidated"
      /\ Len(req.files) = Len(req.quantities)
      /\ \E k \in DOMAIN req.quantities : req.quantities[k] <= 0) =>
       /\ pc = "error"
       /\ res.status = 500
       /\ logoData = <<>>
       /\ allSheetData = <<>>

\* C14: a job without an uploaded file, and a consolidated job that has not
\* as many quantities as files, is refused before any layout is computed:
\* the response is an error and there is no sheet.
C14_MissingFileRejected ==
  /\ (req.route = "merge" /\ req.file = NoFile) =>
       /\ pc = "error"
       /\ res = ServerError("No file uploaded")
       /\ allSheetData = <<>>
  /\ (/\ req.route = "consolidated"
      /\ (Len(req.files) = 0 \/ Len(req.files) # Len(req.quantities))) =>
       /\ pc = "error"
       /\ res \in {ServerError("No files uploaded"),
                   ServerError("File count doesn't match quantity count")}
       /\ logoData = <<>>
       /\ remainingLogos = <<>>
       /\ allSheetData = <<>>

\* a consolidated job of one file and two quantities, refused
C14_Witness ==
  /\ req.route = "consolidated"
  /\ Len(req.files) = 1
  /\ Len(req.quantities) = 2
  /\ pc = "error"
  /\ res = ServerError("File count doesn't match quantity count")

\* the costTables of the request fail to parse or to validate for its sheet
\* width: unparseable text, not an object, no entry for the width, or a
\* table without tiers
MalformedCostTables(r) ==
  \/ r.costTables.text = "unparseable"
  \/ /\ r.costTables.text = "json"
     /\ \/ r.costTables.value.kind # "object"
        \/ r.gangWidth \notin DOMAIN r.costTables.value.tables
        \/ r.costTables.value.tables[r.gangWidth] = <<>>

\* C15: cost tables of the caller that fail to parse or validate never fail
\* the job: every sheet (of a Pro caller, who is given prices) is priced
\* from the built-in default table of the selected sheet width.
C15_BadTablesFallBack ==
  (req.route = "consolidated" /\ MalformedCostTables(req)) =>
    /\ pc # "error"
    /\ req.userPlan = "pro" =>
         \A i \in DOMAIN allSheetData :
           allSheetData[i].cost =
             calculateCost(req.gangWidth, allSheetData[i].height,
                           DefaultUserCostTables.tables[req.gangWidth])

\* the sheet holds n logos in rows 0, 1, ... each full but, when n is not a
\* multiple of logosPerRow, the last
InFullRows(sheet, n, logosPerRow) ==
  /\ Len(sheet.placements) = n
  /\ \A row \in 0..(Ceil(n, logosPerRow) - 1) :
       Cardinality({i \in DOMAIN sheet.placements : sheet.placements[i].row = row})
         = Min(logosPerRow, n - row * logosPerRow)

\* C16: a finished single-file job has exactly ceil(quantity / logosPerSheet)
\* sheets; every sheet but the last holds logosPerSheet logos in rowsPerSheet
\* full rows; the last holds quantity mod logosPerSheet logos, or
\* logosPerSheet when the quantity is a multiple of it.
C16_MergeSheetCount ==
  (req.route = "merge" /\ pc = "done") =>
    LET logosPerRow == MergeLogosPerRow(req)
        rowsPerSheet == MergeRowsPerSheet(req)
        logosPerSheet == logosPerRow * rowsPerSheet
        n == Len(allSheetData)
    IN  /\ logosPerSheet >= 1
        /\ (n - 1) * logosPerSheet < req.quantity
        /\ req.quantity <= n * logosPerSheet
        /\ \A i \in 1..(n - 1) :
             /\ InFullRows(allSheetData[i], logosPerSheet, logosPerRow)
             /\ {allSheetData[i].placements[k].row :
                   k \in DOMAIN allSheetData[i].placements} = 0..(rowsPerSheet - 1)
        /\ InFullRows(allSheetData[n],
                      IF req.quantity % logosPerSheet = 0 THEN logosPerSheet
                      ELSE req.quantity % logosPerSheet,
                      logosPerRow)

\* a finished single-file job of a full sheet of two rows followed by a
\* sheet that is not full
C16_Witness ==
  /\ req.route = "merge"
  /\ pc = "done"
  /\ Len(allSheetData) = 2
  /\ MergeRowsPerSheet(req) = 2
  /\ Len(allSheetData[1].placements) = MergeLogosPerSheet(req)
  /\ Len(allSheetData[2].placements) = req.quantity % MergeLogosPerSheet(req)
  /\ Len(allSheetData[2].placements) >= 1

\* the table the handler of the request prices its sheets with
TableInForce ==
  IF req.route = "merge" THEN DEFAULT_COST_TABLE
  ELSE UserCostTable(ParseCostTables(req.costTables), req.gangWidth)

\* the response prices every sheet by the tier rule on its height and its
\* totalCost is the sum of those prices
PricedAndSummed ==
  /\ \A i \in DOMAIN res.sheets :
       res.sheets[i].cost = TierPrice(TableInForce, res.sheets[i].height)
  /\ res.totalCost =
       SumSeq([i \in DOMAIN res.sheets |->
                 TierPrice(TableInForce, res.sheets[i].height)])

\* C17 as stated: for every finished job, single-file or consolidated, of
\* any caller, the total cost of the response is the sum of the costs of
\* its sheets, and each sheet's cost is calculateCost of its height.
C17_TotalIsSumAnyCaller ==
  pc = "done" => PricedAndSummed

\* C17 amended: for every finished job of a Pro caller the total cost is
\* the sum of the costs of the sheets and each sheet's cost is calculateCost
\* of its height; for any other caller every sheet cost and the total cost
\* are null.
C17_TotalIsSumPro ==
  pc = "done" =>
    IF req.userPlan = "pro" THEN PricedAndSummed
    ELSE /\ \A i \in DOMAIN res.sheets : res.sheets[i].cost = Null
         /\ res.totalCost = Null

\* a finished job of a Pro caller with several sheets in different tiers
C17_Witness ==
  /\ pc = "done"
  /\ req.userPlan = "pro"
  /\ Len(res.sheets) >= 2
  /\ \E i, j \in DOMAIN res.sheets : res.sheets[i].cost < res.sheets[j].cost
  /\ res.totalCost > res.sheets[1].cost

\* the 4 in x 2 in job of 100 logos is being served, past Smart Fit
InScenario ==
  /\ req.route = "consolidated"
  /\ req.files = <<ScenarioLogo>>
  /\ req.quantities = <<100>>
  /\ pc \in {"consolidated", "done"}

\* the layouts of the scenario by the layout calculator's formulas
ScenarioUpright ==
  [logosPerRow |-> LogosPerRow(ScenarioLogo[1], 22),
   rowsPerSheet |-> RowsPerSheet(ScenarioLogo[2], DefaultMaxLength),
   logosPerSheet |-> ItemsPerSheet(ScenarioLogo[1], ScenarioLogo[2], 22,
                                   DefaultMaxLength)]
ScenarioTurned ==
  [logosPerRow |-> LogosPerRow(ScenarioLogo[2], 22),
   rowsPerSheet |-> RowsPerSheet(ScenarioLogo[1], DefaultMaxLength),
   logosPerSheet |-> ItemsPerSheet(ScenarioLogo[2], ScenarioLogo[1], 22,
                                   DefaultMaxLength)]

\* C18 as stated: a 4 in x 2 in logo (288 x 144 pt), sheet width 22 in,
\* maximum length 200 in, margin 0.125 in, spacing 0.5 in, quantity 100,
\* under Smart Fit: upright yields more logos per sheet than rotated, so
\* the logo is not rotated; logosPerRow, rowsPerSheet and the number of
\* sheets are those of the layout calculator's formulas.
C18_ScenarioUpright ==
  InScenario =>
    /\ ScenarioUpright.logosPerSheet > ScenarioTurned.logosPerSheet
    /\ ~logoData[1].isRotated
    /\ logoData[1].layout = ScenarioUpright
    /\ pc = "done" =>
         Len(allSheetData) = Ceil(100, ScenarioUpright.logosPerSheet)

\* C18 amended: in that scenario rotated (8 per row, 44 rows, 352 per
\* sheet) yields more logos per sheet than upright (4 per row, 80 rows, 320
\* per sheet), so Smart Fit rotates the logo; logosPerRow = 8, rowsPerSheet
\* = 44 and the number of sheets, 1, are those of the layout calculator's
\* formulas.
C18_ScenarioRotated ==
  InScenario =>
    /\ ScenarioUpright = [logosPerRow |-> 4, rowsPerSheet |-> 80,
                          logosPerSheet |-> 320]
    /\ ScenarioTurned = [logosPerRow |-> 8, rowsPerSheet |-> 44,
                         logosPerSheet |-> 352]
    /\ logoData[1].isRotated
    /\ logoData[1].logoWidth = ScenarioLogo[2]
    /\ logoData[1].logoHeight = ScenarioLogo[1]
    /\ logoData[1].layout = ScenarioTurned
    /\ pc = "done" =>
         /\ Len(allSheetData) = Ceil(100, ScenarioTurned.logosPerSheet)
         /\ Len(allSheetData) = 1
         /\ InFullRows(allSheetData[1], 100, ScenarioTurned.logosPerRow)
         /\ \A i \in DOMAIN allSheetData[1].placements :
              allSheetData[1].placements[i].rotated

\* the scenario's job has finished
C18_Witness ==
  /\ InScenario
  /\ pc = "done"
  /\ Len(allSheetData[1].placements) = 100

\* the instances <<fileIndex, logoIndex>> of a sequence of logos or of
\* placements, in its order
InstancesOf(logos) ==
  [i \in DOMAIN logos |-> <<logos[i].fileIndex, logos[i].logoIndex>>]

\* the instances drawn on the sheets from sheet k on, in sheet order
RECURSIVE PlacedFrom(_, _)
PlacedFrom(sheets, k) ==
  IF k > Len(sheets) THEN <<>>
  ELSE InstancesOf(sheets[k].placements) \o PlacedFrom(sheets, k + 1)

\* the instances the job asks for, file after file in input order
RECURSIVE RequestedFrom(_, _)
RequestedFrom(quantities, k) ==
  IF k > Len(quantities) THEN <<>>
  ELSE [i \in 1..quantities[k] |-> <<k - 1, i - 1>>] \o
       RequestedFrom(quantities, k + 1)

\* C19: consolidated conservation and order: every iteration of the loop
\* emits exactly one sheet; what is drawn so far followed by what remains
\* is every copy of every file, once, in file input order; and when the
\* packer finishes nothing remains, so every copy is on exactly one sheet
\* exactly once.
C19_ConsConservation ==
  (req.route = "consolidated" /\ pc \in {"consolidated", "done"}) =>
    /\ Len(allSheetData) = sheetIndex
    /\ PlacedFrom(allSheetData, 1) \o InstancesOf(remainingLogos)
         = RequestedFrom(req.quantities, 1)
    /\ pc = "done" =>
         /\ remainingLogos = <<>>
         /\ PlacedFrom(res.sheets, 1) = RequestedFrom(req.quantities, 1)

\* a finished consolidated job of two files where the copies of the second
\* file are on two sheets
C19_Witness ==
  /\ req.route = "consolidated"
  /\ pc = "done"
  /\ Len(req.files) = 2
  /\ Len(allSheetData) >= 2
  /\ \E i, j \in DOMAIN allSheetData :
       /\ i < j
       /\ \E k \in DOMAIN allSheetData[i].placements :
            allSheetData[i].placements[k].fileIndex = 0
       /\ \E k \in DOMAIN allSheetData[i].placements :
            allSheetData[i].placements[k].fileIndex = 1
       /\ \E k \in DOMAIN allSheetData[j].placements :
            allSheetData[j].placements[k].fileIndex = 1

\* C20: fixed orientation: the single-file packer takes rotated from the
\* caller's rotate flag and compares no orientations; the layout width and
\* height are the native width and height when the flag is false and
\* swapped when it is true, whatever logos per sheet results: every logo
\* is drawn with that orientation and size, in columns one layout width
\* plus the spacing apart, logosPerRow of that width to a full row.
C20_FixedOrientation ==
  (req.route = "merge" /\ pc \in {"merge", "done"}) =>
    LET layoutWidth == IF req.rotate THEN req.file[2] ELSE req.file[1]
        layoutHeight == IF req.rotate THEN req.file[1] ELSE req.file[2]
    IN  \A s \in Sheets : \A i \in DOMAIN s.placements :
          LET p == s.placements[i]
          IN  /\ p.rotated = req.rotate
              /\ p.w = layoutWidth
              /\ p.h = layoutHeight
              /\ p.x = safeMarginPts + p.col * (layoutWidth + spacingPts)
              /\ p.col < LogosPerRow(layoutWidth, req.gangWidth)
              /\ p.row < RowsPerSheet(layoutHeight, req.maxLengthInches)

\* a single-file job drawn rotated as asked although upright has more logos
\* per sheet, and with several logos in a row
C20_Witness ==
  /\ req.route = "merge"
  /\ pc = "done"
  /\ req.rotate
  /\ ItemsPerSheet(req.file[1], req.file[2], req.gangWidth, req.maxLengthInches)
       > ItemsPerSheet(req.file[2], req.file[1], req.gangWidth, req.maxLengthInches)
  /\ \E s \in Sheets : \E i \in DOMAIN s.placements :
       s.placements[i].rotated /\ s.placements[i].col >= 1

\* C21: single-file placement order and coordinates: on a sheet of height
\* H the k-th logo drawn (k from 0) is in row floor(k / logosPerRow) and
\* column k mod logosPerRow, at x = margin + column * (layoutWidth +
\* spacing) and y = H - margin - layoutHeight - row * (layoutHeight +
\* spacing); so each row is full before the next one starts.
C21_MergePlacementOrder ==
  (req.route = "merge" /\ pc \in {"merge", "done"}) =>
    \A s \in Sheets : \A i \in DOMAIN s.placements :
      LET p == s.placements[i]
          k == i - 1
          logosPerRow == MergeLogosPerRow(req)
          row == k \div logosPerRow
          column == k % logosPerRow
      IN  /\ p.row = row
          /\ p.col = column
          /\ p.x = safeMarginPts + column * (MergeLayoutWidth(req) + spacingPts)
          /\ p.y = s.heightPts - safeMarginPts - MergeLayoutHeight(req)
                     - row * (MergeLayoutHeight(req) + spacingPts)

\* a sheet of a single-file job with a full row of two logos and a second
\* row begun
C21_Witness ==
  /\ req.route = "merge"
  /\ pc = "done"
  /\ MergeLogosPerRow(req) = 2
  /\ \E s \in Sheets :
       /\ \E i \in DOMAIN s.placements :
            s.placements[i].row = 0 /\ s.placements[i].col = 1
       /\ \E i \in DOMAIN s.placements :
            s.placements[i].row = 1 /\ s.placements[i].col = 0

\* the native height of the logo of a placement
NativeHeightOf(p) ==
  IF req.route = "merge" THEN req.file[2] ELSE req.files[p.fileIndex + 1][2]

\* the left edge of what page.drawPage draws at (drawX, drawY): a page
\* turned by 90 degrees about that point lies to its left, over its native
\* height
FootprintLeft(p) ==
  IF p.rotated THEN p.drawX - NativeHeightOf(p) ELSE p.drawX

\* C22: in both packers a rotated logo is drawn at the x of its column plus
\* its layout width, which is its native height, and at its y unchanged; a
\* logo that is not rotated is drawn at the x of its column; so the
\* footprint of a rotated logo starts at the left edge of its column.
C22_RotationAnchor ==
  (req.route \in {"merge", "consolidated"}) =>
    \A s \in Sheets : \A i \in DOMAIN s.placements :
      LET p == s.placements[i]
      IN  /\ p.x = safeMarginPts + p.col * (p.w + spacingPts)
          /\ p.drawY = p.y
          /\ p.rotated => (p.w = NativeHeightOf(p) /\ p.drawX = p.x + p.w)
          /\ ~p.rotated => p.drawX = p.x
          /\ FootprintLeft(p) = p.x

\* a sheet of the consolidated packer with a rotated logo in its second
\* column
C22_Witness ==
  /\ req.route = "consolidated"
  /\ \E s \in Sheets : \E i \in DOMAIN s.placements :
       /\ s.placements[i].rotated
       /\ s.placements[i].col = 1
       /\ s.placements[i].drawX = s.placements[i].x + s.placements[i].w

\* the sheet just pushed replays the first pass on `logos`, and `rest` is
\* what the removal leaves of them
ReplaysFirstPass(logos, sheet, rest) ==
  LET first == FirstPassOf(req, logos)
      n == Len(first.logosToPlace)
      top == req.maxLengthInches * POINTS_PER_INCH - safeMarginPts
  IN  /\ Len(sheet.placements) = n
      /\ \A i \in 1..n :
           LET p == sheet.placements[i]
               logo == logos[first.logosToPlace[i] + 1]
           IN  /\ p.fileIndex = logo.fileIndex
               /\ p.logoIndex = logo.logoIndex
               /\ p.col = first.walk[i].col
               /\ p.row = Cardinality({first.walk[j].tempYCursor : j \in 1..i}) - 1
               /\ (sheet.heightPts - safeMarginPts) - p.y
                    = top - first.walk[i].tempYCursor
      /\ first.logosToPlace = [i \in 1..n |-> i - 1]
      /\ rest = SubSeq(logos, n + 1, Len(logos))

\* C23: the second pass of the consolidated packer replays the first: on
\* every sheet it draws exactly the logos the first pass selected, each in
\* the row and column the first pass gave it, and the logos removed from
\* remainingLogos afterwards are exactly those drawn, a prefix of it.
C23_SecondPassReplays ==
  [][(pc = "consolidated" /\ Len(allSheetData') = Len(allSheetData) + 1) =>
       ReplaysFirstPass(remainingLogos, allSheetData'[Len(allSheetData')],
                        remainingLogos')]_vars

\* a sheet of two files, one row each, has been pushed and logos remain for
\* the next sheet
C23_Witness ==
  /\ req.route = "consolidated"
  /\ pc = "consolidated"
  /\ Len(allSheetData) = 1
  /\ remainingLogos # <<>>
  /\ \E i, j \in DOMAIN allSheetData[1].placements :
       /\ allSheetData[1].placements[i].fileIndex = 0
       /\ allSheetData[1].placements[j].fileIndex = 1
       /\ allSheetData[1].placements[j].row = 1

\* the footprint [x, x + w] x [y, y + h] of a placement lies in the margin
\* box of its sheet
InMarginBox(p, sheet) ==
  /\ safeMarginPts <= p.x
  /\ p.x + p.w <= sheet.width * POINTS_PER_INCH - safeMarginPts
  /\ safeMarginPts <= p.y
  /\ p.y + p.h <= sheet.heightPts - safeMarginPts

\* C24: placement bounds: every logo drawn by either packer on a sheet of
\* width W and computed height H has its footprint [x, x + layoutWidth] x
\* [y, y + layoutHeight] inside the margin box [margin, W - margin] x
\* [margin, H - margin].
C24_PlacementBounds ==
  \A s \in Sheets : \A i \in DOMAIN s.placements :
    InMarginBox(s.placements[i], s)

\* two placements of a sheet are at least spacingPts apart: side by side
\* when in one row, one above the other when in different rows
Apart(p, q) ==
  IF p.y = q.y
  THEN \/ p.x + p.w + spacingPts <= q.x
       \/ q.x + q.w + spacingPts <= p.x
  ELSE \/ p.y + p.h + spacingPts <= q.y
       \/ q.y + q.h + spacingPts <= p.y

\* C25: no overlap: on every sheet of either packer the footprints of any
\* two distinct placements are disjoint and at least the spacing apart,
\* horizontally in one row and vertically in different rows, rows of
\* different files with different logo heights included.
C25_NoOverlap ==
  \A s \in Sheets : \A i, j \in DOMAIN s.placements :
    i # j => Apart(s.placements[i], s.placements[j])

\* a sheet of the consolidated packer with two logos side by side and,
\* below them, a row of another file and another logo height
C25_Witness ==
  /\ req.route = "consolidated"
  /\ \E s \in Sheets : \E i, j, k \in DOMAIN s.placements :
       /\ s.placements[i].y = s.placements[j].y
       /\ s.placements[i].x < s.placements[j].x
       /\ s.placements[k].fileIndex # s.placements[i].fileIndex
       /\ s.placements[k].h # s.placements[i].h
       /\ s.placements[k].y < s.placements[i].y

\* the /merge request for the one file of the consolidated job being
\* served, with the orientation Smart Fit gave it
AsMergeRequest ==
  [route |-> "merge", quantity |-> req.quantities[1],
   rotate |-> logoData[1].isRotated, gangWidth |-> req.gangWidth,
   maxLengthInches |-> req.maxLengthInches, file |-> req.files[1],
   userPlan |-> req.userPlan]

\* the sheets of the sheet loop of /merge from `remainingNow` logos on
RECURSIVE MergeSheetsFrom(_, _)
MergeSheetsFrom(r, remainingNow) ==
  IF remainingNow <= 0 THEN <<>>
  ELSE LET sheet == MergeSheetData(r, remainingNow)
       IN  <<sheet>> \o MergeSheetsFrom(r, remainingNow - Len(sheet.placements))

\* what the claim compares: for each sheet, its number of logos and its
\* height
Outline(sheets) ==
  [i \in DOMAIN sheets |-> <<Len(sheets[i].placements), sheets[i].height>>]

\* C26: for a job of a single file, the consolidated packer and the
\* single-file packer, run with the same orientation, sheet width and
\* maximum length, produce the same number of sheets, the same number of
\* logos on each sheet and the same height of each sheet.
C26_SingleFileEquivalence ==
  (/\ req.route = "consolidated"
   /\ pc = "done"
   /\ Len(req.files) = 1
   /\ req.quantities[1] >= 1
   /\ MergeLogosPerSheet(AsMergeRequest) >= 1) =>
    Outline(allSheetData) = Outline(MergeSheetsFrom(AsMergeRequest, req.quantities[1]))

\* C27: without cost tables of the caller, a sheet of a Pro caller of a
\* given width and height has the same price from /merge and from
\* /merge-consolidated: that of the default tier table of its sheet width,
\* 22 or 30.
C27_ProPricingParity ==
  (/\ req.route \in {"merge", "consolidated"}
   /\ req.userPlan = "pro"
   /\ req.route = "consolidated" => req.costTables = NoCostTables) =>
    \A s \in Sheets :
      s.placements # <<>> =>
        s.cost = TierPrice(DefaultUserCostTables.tables[s.width], s.height)

\* userCounts.count of the stored entry; no entry is no download
StoredCount(counts, email) ==
  IF email \in DOMAIN counts THEN counts[email].count ELSE 0

\* C28: in any interleaving of concurrent /merge and /merge-consolidated
\* requests of a free user within one calendar month, neither the number of
\* requests answered with sheets nor the stored download count exceeds
\* FREE_DOWNLOAD_LIMIT
C28_LimitUnderConcurrency ==
  /\ sheetsSent <= FREE_DOWNLOAD_LIMIT
  /\ StoredCount(downloadCounts, UserEmail) <= FREE_DOWNLOAD_LIMIT

\* the step sends an answer with sheets to the free user `email`
SheetsTo(email) ==
  /\ reply'.seq # reply.seq
  /\ reply'.status = 200
  /\ Limited(reply')
  /\ reply'.userEmail = email

\* C29 as stated: a request answered 429 or with an error leaves the stored
\* download count unchanged, a request answered with sheets adds exactly 1
\* to the stored count of its free user, and a request of a Pro or anonymous
\* caller changes no count; so the stored count changes only in the step
\* that sends sheets to the free user, and then by 1
C29_StoredCountFrame ==
  [][StoredCount(downloadCounts', UserEmail) =
       StoredCount(downloadCounts, UserEmail) +
         IF SheetsTo(UserEmail) THEN 1 ELSE 0]_vars

\* the downloads of `email` in the month `month`
CountOfMonth(counts, email, month) == UserCounts(counts, email, month).count

\* C29, amended: within a calendar month the user's download count of that
\* month changes only in the step that sends sheets to the user as a free
\* caller, and then by exactly 1; answers 429 and 500 and the requests of
\* Pro and anonymous callers leave it as it is
C29_MonthCountFrame ==
  [][currentMonth' = currentMonth =>
       CountOfMonth(downloadCounts', UserEmail, currentMonth) =
         CountOfMonth(downloadCounts, UserEmail, currentMonth) +
           IF SheetsTo(UserEmail) THEN 1 ELSE 0]_vars

\* in the second month the free user has just been sent sheets for the
\* first time: one download of that month is on record
C29_Witness ==
  /\ currentMonth = 1
  /\ sheetsSent = 1
  /\ reply.status = 200
  /\ Limited(reply)
  /\ downloadCounts = MapSet(EmptyMap, UserEmail, [count |-> 1, resetDate |-> 1])

\* the account request answered in this step finds its email registered
Registered(email) == email \in DOMAIN usersFile

\* C30: after any sequence of register, login, profile and admin operations
\* `users` is still a Map that holds every registered, non-deleted user; a
\* valid registration with a registered email is answered "User already
\* exists", and a login of a registered user with the right password
\* succeeds
C30_UsersStoreKept ==
  [][/\ users'.kind = "Map"
     /\ users'.kind = "Map" => DOMAIN usersFile' \subseteq DOMAIN users'.entries
     /\ (/\ authRes'.route = "register"
         /\ ~MissingField(authRes'.body)
         /\ ~ShortPassword(authRes'.body.password)
         /\ Registered(authRes'.body.email)) =>
           authRes'.error = "User already exists"
     /\ (/\ authRes'.route = "login"
         /\ Registered(authRes'.body.email)
         /\ Compare(authRes'.body.password,
                    usersFile[authRes'.body.email].password)) =>
           authRes'.status = 200]_vars

=============================================================================
